---- MODULE Spec2Model ----
(***************************************************************************)
(* Model of code/eval_pruned_discriminative_models.py: the attention-head  *)
(* ablator, the intrasentence and intersentence scorers, the evaluate      *)
(* orchestrator and the __main__ pruning sweep.                            *)
(*                                                                         *)
(* Tensors are functions over 0-based index ranges.  A projection          *)
(* (torch.nn.Linear) holds weight[i][j] with i the output feature (axis 0) *)
(* and j the input feature (axis 1), and bias[i] with i the output         *)
(* feature.  Attention head h owns the output features                     *)
(* h*head_dim .. (h+1)*head_dim - 1 of each projection.                    *)
(* Python strings that the code inspects or formats are tuples of          *)
(* one-character strings, so that slicing, "in" and formatting are         *)
(* computed, not assumed.                                                  *)
(***************************************************************************)
EXTENDS Integers, Sequences, FiniteSets, TLC

None == "None"

(***************************************************************************)
(* Bounds.  GridLayers and GridHeads stand for the two literals 12 of the  *)
(* sweep loops (range(12)), scaled down; a model of the reference          *)
(* architecture has exactly that many layers and heads, and the other      *)
(* pretrained classes have up to ExtraDims more of each.  HeadDim bounds   *)
(* attention_head_size, MaxCalls the direct calls of the ablator, MaxItems *)
(* the length of a dataset and SeqLen the tokens of an item.               *)
(***************************************************************************)
GridLayers == 2
GridHeads == 2
ExtraDims == 1
HeadDim == 2
MaxCalls == 2
MaxItems == 2
SeqLen == 3

(***************************************************************************)
(* Python strings                                                          *)
(***************************************************************************)
BERT == <<"b","e","r","t">>
ROBERTA_BASE == <<"r","o","b","e","r","t","a","-","b","a","s","e">>

\* parse_args: pretrained_model_choices
pretrained_model_choices ==
    { <<"b","e","r","t","-","b","a","s","e","-","u","n","c","a","s","e","d">>,
      <<"b","e","r","t","-","b","a","s","e","-","c","a","s","e","d">>,
      <<"b","e","r","t","-","l","a","r","g","e","-","u","n","c","a","s","e","d",
        "-","w","h","o","l","e","-","w","o","r","d","-","m","a","s","k","i","n","g">>,
      <<"b","e","r","t","-","l","a","r","g","e","-","u","n","c","a","s","e","d">>,
      <<"b","e","r","t","-","l","a","r","g","e","-","c","a","s","e","d">>,
      <<"g","p","t","2">>,
      <<"g","p","t","2","-","m","e","d","i","u","m">>,
      <<"g","p","t","2","-","l","a","r","g","e">>,
      ROBERTA_BASE,
      <<"r","o","b","e","r","t","a","-","l","a","r","g","e">>,
      <<"x","l","n","e","t","-","b","a","s","e","-","c","a","s","e","d">>,
      <<"x","l","n","e","t","-","l","a","r","g","e","-","c","a","s","e","d">> }

\* parse_args: the default of --pretrained-class
DefaultPretrainedClass == <<"b","e","r","t","-","b","a","s","e","-","c","a","s","e","d">>

\* s[:n]
Prefix(s, n) ==
    SubSeq(s, 1, IF n < Len(s) THEN n ELSE Len(s))

\* sub in s
Contains(sub, s) ==
    \E i \in 1..(Len(s) - Len(sub) + 1) : SubSeq(s, i, i + Len(sub) - 1) = sub

Digit(d) ==
    CASE d = 0 -> "0" [] d = 1 -> "1" [] d = 2 -> "2" [] d = 3 -> "3" [] d = 4 -> "4"
      [] d = 5 -> "5" [] d = 6 -> "6" [] d = 7 -> "7" [] d = 8 -> "8" [] d = 9 -> "9"

\* str(n) of a non-negative int, as an f-string formats it
RECURSIVE Str(_)
Str(n) ==
    IF n < 10 THEN <<Digit(n)>> ELSE Str(n \div 10) \o <<Digit(n % 10)>>

(***************************************************************************)
(* Python and torch indexing                                               *)
(***************************************************************************)
\* a slice bound, as Python normalises it against a length n
ClampIndex(i, n) ==
    IF i < 0 THEN (IF i + n < 0 THEN 0 ELSE i + n) ELSE (IF i > n THEN n ELSE i)

\* the indices selected by [start:stop] on an axis of length n
SliceIndices(start, stop, n) ==
    { i \in 0..(n - 1) : ClampIndex(start, n) <= i /\ i < ClampIndex(stop, n) }

\* nn.ModuleList.__getitem__(idx): an int outside -n..n-1 raises IndexError
IndexInRange(idx, n) ==
    -n <= idx /\ idx < n

AbsIndex(idx, n) ==
    IF idx < 0 THEN idx + n ELSE idx

(***************************************************************************)
(* The model object                                                        *)
(***************************************************************************)
Projections == {"query", "key", "value"}

Linear(n, w, b) ==
    [ weight |-> [i \in 0..(n - 1) |-> [j \in 0..(n - 1) |-> w]],
      bias   |-> [i \in 0..(n - 1) |-> b] ]

\* the shapes a pretrained class can have: the reference one, or a larger one
Shapes ==
    { [layers |-> L, heads |-> H, head_dim |-> d] :
        L \in GridLayers..(GridLayers + ExtraDims),
        H \in GridHeads..(GridHeads + ExtraDims),
        d \in 1..HeadDim }

NumLayers(m) == Len(m.layer)

Hidden(m) == m.num_attention_heads * m.attention_head_size

\* a variant of FromPretrained that hands out a shared instance which the
\* ablation of layer 0, head 0 has already written
FromPretrainedStale(shape, stamp) ==
    LET n == shape.heads * shape.head_dim
    IN  [ num_attention_heads |-> shape.heads,
          attention_head_size |-> shape.head_dim,
          wrapped |-> FALSE,
          born |-> stamp,
          layer |-> [k \in 1..shape.layers |->
                       [p \in Projections |->
                          IF k = 1
                          THEN [ weight |-> [i \in 0..(n - 1) |-> [j \in 0..(n - 1) |->
                                               IF j < shape.head_dim THEN 0 ELSE 1]],
                                 bias |-> [i \in 0..(n - 1) |->
                                               IF i < shape.head_dim THEN 0 ELSE 1] ]
                          ELSE Linear(n, 1, 1)]] ]

\* getattr(models, X)(PRETRAINED_CLASS): a new instance holding the pretrained
\* parameters (non-zero values); born is a ghost stamp of the construction
FromPretrained(shape, stamp) ==
    [ num_attention_heads |-> shape.heads,
      attention_head_size |-> shape.head_dim,
      wrapped |-> FALSE,
      born |-> stamp,
      layer |-> [k \in 1..shape.layers |->
                   [p \in Projections |-> Linear(shape.heads * shape.head_dim, 1, 1)]] ]

\* torch.nn.DataParallel(model): the model becomes reachable as .module
DataParallel(m) ==
    [m EXCEPT !.wrapped = TRUE]

\* model.load_state_dict(torch.load(path)): every parameter takes the
\* checkpoint's value (non-zero, and different from the pretrained one)
LoadStateDict(m) ==
    [m EXCEPT !.layer = [k \in DOMAIN m.layer |->
                           [p \in Projections |-> Linear(Hidden(m), 2, 2)]]]

(***************************************************************************)
(* BiasEvaluator.zero_out_attention_weights                                *)
(***************************************************************************)
\* weight[:, start:end] = 0
ZeroColumns(W, sl) ==
    [i \in DOMAIN W |-> [j \in DOMAIN W[i] |-> IF j \in sl THEN 0 ELSE W[i][j]]]

\* bias[start:end] = 0
ZeroEntries(b, sl) ==
    [i \in DOMAIN b |-> IF i \in sl THEN 0 ELSE b[i]]

\* the exception the call raises, or None.  self.model.bert exists only on the
\* bare model and self.model.module only on the DataParallel wrapper; the layer
\* index goes through nn.ModuleList; the head index only forms slice bounds.
ZeroOutError(m, layer_num, head_num, intrasentence) ==
    IF intrasentence = m.wrapped THEN "AttributeError"
    ELSE IF ~IndexInRange(layer_num, NumLayers(m)) THEN "IndexError"
    ELSE None

\* the columns and bias entries the call writes
TargetSlice(m, head_num) ==
    LET head_dim    == m.attention_head_size
        start_index == head_num * head_dim
        end_index   == start_index + head_dim
    IN  SliceIndices(start_index, end_index, Hidden(m))

\* the model after a call that raises nothing (layers are numbered from 1 in
\* the tuple m.layer, so Python's layer k is m.layer[k + 1])
ZeroOut(m, layer_num, head_num) ==
    LET k  == AbsIndex(layer_num, NumLayers(m)) + 1
        sl == TargetSlice(m, head_num)
    IN  [m EXCEPT !.layer[k] =
            [p \in Projections |->
                [ weight |-> ZeroColumns(m.layer[k][p].weight, sl),
                  bias   |-> ZeroEntries(m.layer[k][p].bias, sl) ]]]

(***************************************************************************)
(* Intersentence scoring.  An example carries its id and the softmax of    *)
(* the model's two logits on it (per mille): probs[1] is class 0 and       *)
(* probs[2] is class 1.                                                    *)
(***************************************************************************)
\* evaluate_intersentence, the sequential loop: the class index read
SequentialClassIndex(pretrained_class) ==
    IF BERT = Prefix(pretrained_class, 4) \/ ROBERTA_BASE = pretrained_class THEN 0 ELSE 1

\* evaluate_intersentence, the sequential loop: one entry of predictions
SequentialPrediction(example, pretrained_class) ==
    [ id |-> example.id, score |-> example.probs[SequentialClassIndex(pretrained_class) + 1] ]

\* process_job: the class index read
JobClassIndex(pretrained_class) ==
    IF Contains(BERT, pretrained_class) THEN 0 ELSE 1

\* process_job: the (pid, pscore) tuple returned
process_job(example, pretrained_class) ==
    << example.id, example.probs[JobClassIndex(pretrained_class) + 1] >>

(***************************************************************************)
(* Intrasentence scoring.  An item of the loader carries sentence_id,      *)
(* next_token and input_ids (SeqLen token ids, positions from 1).          *)
(***************************************************************************)
MASK_TOKEN_IDX == "MASK"

TokenIds == {MASK_TOKEN_IDX, "w"}

\* the vocabulary entries used as target tokens, numbered
TargetNo(tok) == IF tok = "t1" THEN 1 ELSE 2

\* the positions of a row where mask_idxs is true
MaskPositions(input_ids) ==
    { q \in 1..Len(input_ids) : input_ids[q] = MASK_TOKEN_IDX }

\* the synthetic model: the softmax output (per mille) at a position of an
\* input row for a vocabulary entry; it depends on all three
Prob(input_ids, q, tok) ==
    100 * q + 10 * Cardinality(MaskPositions(input_ids)) + TargetNo(tok)

\* the elements of a set of numbers in increasing order
RECURSIVE Sorted(_)
Sorted(S) ==
    IF S = {} THEN <<>>
    ELSE LET lo == CHOOSE x \in S : \A y \in S : x <= y
         IN  <<lo>> \o Sorted(S \ {lo})

\* output[mask_idxs]: the rows of the batch's output selected by the boolean
\* mask, in row-major order; each is named by (row of the batch, position)
RECURSIVE MaskRows(_, _)
MaskRows(batch, r) ==
    IF r > Len(batch) THEN <<>>
    ELSE LET qs == Sorted(MaskPositions(batch[r].input_ids))
         IN  [n \in 1..Len(qs) |-> [row |-> r, q |-> qs[n]]] \o MaskRows(batch, r + 1)

\* output.index_select(1, next_token).diag(): entry idx is mask row idx read at
\* the column of next_token[idx]; there are min(#mask rows, batch size) entries.
\* Each entry keeps, beside its value p, where it was read (item, q, tok).
Diag(batch, first) ==
    LET rows == MaskRows(batch, 1)
        n    == IF Len(rows) < Len(batch) THEN Len(rows) ELSE Len(batch)
    IN  [idx \in 1..n |->
            [ item |-> first + rows[idx].row - 1,
              q    |-> rows[idx].q,
              tok  |-> batch[idx].next_token,
              p    |-> Prob(batch[rows[idx].row].input_ids, rows[idx].q,
                            batch[idx].next_token) ]]

\* word_probabilities[key].append(val) on a defaultdict(list), kept as the
\* sequence of its (id, v) entries in insertion order
DictAppend(wp, key, val) ==
    IF \E n \in 1..Len(wp) : wp[n].id = key
    THEN [n \in 1..Len(wp) |->
            IF wp[n].id = key THEN [wp[n] EXCEPT !.v = Append(@, val)] ELSE wp[n]]
    ELSE Append(wp, [id |-> key, v |-> <<val>>])

\* for idx, item in enumerate(output): word_probabilities[sentence_id[idx]].append(...)
RECURSIVE Accumulate(_, _, _, _)
Accumulate(wp, batch, out, idx) ==
    IF idx > Len(out) THEN wp
    ELSE Accumulate(DictAppend(wp, batch[idx].sentence_id, out[idx]), batch, out, idx + 1)

\* the items of batch number b (from 0) of DataLoader(dataset, batch_size)
BatchOf(dataset, batch_size, b) ==
    SubSeq(dataset, b * batch_size + 1,
           IF (b + 1) * batch_size < Len(dataset) THEN (b + 1) * batch_size ELSE Len(dataset))

RECURSIVE SumP(_)
SumP(v) ==
    IF v = <<>> THEN 0 ELSE v[1].p + SumP(Tail(v))

\* np.mean(v), as the exact fraction num/den
Mean(v) ==
    [ num |-> SumP(v), den |-> Len(v) ]

\* the reconciliation loop: one {id, score} per key of word_probabilities
Reconcile(wp) ==
    [n \in 1..Len(wp) |-> [id |-> wp[n].id, score |-> Mean(wp[n].v)]]

(***************************************************************************)
(* Output file names                                                       *)
(***************************************************************************)
OUTPUT_DIR == <<"p","r","e","d","i","c","t","i","o","n","s","/">>
INTERSENTENCE_MODEL == <<"B","e","r","t","N","e","x","t","S","e","n","t","e","n","c","e">>
INTRASENTENCE_MODEL == <<"B","e","r","t","L","M">>
OutJson == <<"o","u","t",".","j","s","o","n">>

\* --output-file left at its default None (no name is the empty tuple)
NoOutputFile == << >>

\* f"predictions_{pretrained_class}_{intersentence_model}_{intrasentence_model}"
PredictionsStem(a) ==
    <<"p","r","e","d","i","c","t","i","o","n","s","_">> \o a.pretrained_class
      \o <<"_">> \o INTERSENTENCE_MODEL \o <<"_">> \o INTRASENTENCE_MODEL

\* __main__: the path written, without pruning
PlainOutputFile(a) ==
    OUTPUT_DIR \o (IF a.output_file # NoOutputFile THEN a.output_file
                   ELSE PredictionsStem(a) \o <<".","j","s","o","n">>)

\* __main__: the path written by the sweep's iteration (layer_num, head_num)
SweepOutputFile(a, l, h) ==
    OUTPUT_DIR \o (IF a.output_file # NoOutputFile THEN a.output_file
                   ELSE PredictionsStem(a) \o <<"_">> \o Str(l) \o <<"_">> \o Str(h)
                          \o <<".","j","s","o","n">>)

(***************************************************************************)
(* State                                                                   *)
(***************************************************************************)
VARIABLES
    args,                \* the parsed command line
    shape,               \* layers, heads and head size of the pretrained class
    device_count,        \* torch.cuda.device_count()
    pc,                  \* the position of the program
    error,               \* the exception that ended the run or the last call
    layer_num, head_num, \* the sweep's loop variables
    model,               \* evaluator.model
    bias,                \* evaluate's result dict
    files,               \* the output files: path -> what was dumped last
    inter_dataset,       \* the examples of IntersentenceDataset
    pending,             \* the examples the shuffled DataLoader has yet to yield
    predictions,         \* evaluate_intersentence's predictions
    intra_dataset,       \* the items of IntrasentenceLoader
    batch_num,           \* the number of batches the intrasentence loop has taken
    word_probabilities,  \* evaluate_intrasentence's defaultdict
    log,                 \* ghost: the ablator calls and forward passes so far
    calls                \* the number of direct calls of the ablator

vars == << args, shape, device_count, pc, error, layer_num, head_num, model, bias,
           files, inter_dataset, pending, predictions, intra_dataset, batch_num,
           word_probabilities, log, calls >>

EmptyDict == << >>

\* d[key] = val
DictSet(d, key, val) ==
    [k \in (DOMAIN d) \cup {key} |-> IF k = key THEN val ELSE d[k]]

\* parse_args, over the options the evaluation reads
Configs ==
    [ pretrained_class        : {DefaultPretrainedClass},
      no_cuda                 : BOOLEAN,
      output_file             : {NoOutputFile, OutJson},
      do_pruning              : BOOLEAN,
      skip_intrasentence      : BOOLEAN,
      skip_intersentence      : BOOLEAN,
      intrasentence_load_path : {None, "intra.pth"},
      intersentence_load_path : {None, "inter.pth"},
      batch_size              : {1, 2} ]

\* parse_args: every default
DefaultArgs ==
    [ pretrained_class        |-> DefaultPretrainedClass,
      no_cuda                 |-> FALSE,
      output_file             |-> NoOutputFile,
      do_pruning              |-> FALSE,
      skip_intrasentence      |-> FALSE,
      skip_intersentence      |-> FALSE,
      intrasentence_load_path |-> None,
      intersentence_load_path |-> None,
      batch_size              |-> 1 ]

\* the shapes the sweep is run on: the reference architecture's, or a larger
\* class's with e more layers and heads
SweepShapes ==
    { [layers |-> GridLayers + e, heads |-> GridHeads + e, head_dim |-> HeadDim] :
        e \in 0..ExtraDims }

\* the input file of the runs of __main__: one sentence pair, and two
\* intrasentence items of one sentence each with one mask
MainInterDataset ==
    << [id |-> "pair1", probs |-> <<953, 47>>] >>

MainIntraDataset ==
    << [sentence_id |-> "s1", next_token |-> "t1", input_ids |-> <<"w", MASK_TOKEN_IDX, "w">>],
       [sentence_id |-> "s2", next_token |-> "t2", input_ids |-> <<"w", "w", MASK_TOKEN_IDX>>] >>

Init ==
    /\ args \in Configs
    /\ shape \in SweepShapes
    /\ device_count \in {1, 2}
    /\ pc = "main"
    /\ error = None
    /\ layer_num = None
    /\ head_num = None
    /\ model = None
    /\ bias = EmptyDict
    /\ files = EmptyDict
    /\ inter_dataset = MainInterDataset
    /\ pending = {}
    /\ predictions = << >>
    /\ intra_dataset = MainIntraDataset
    /\ batch_num = 0
    /\ word_probabilities = << >>
    /\ log = << >>
    /\ calls = 0

Task(intrasentence) == IF intrasentence THEN "intrasentence" ELSE "intersentence"

Event(kind, intrasentence) ==
    [kind |-> kind, task |-> Task(intrasentence), layer |-> layer_num, head |-> head_num]

Stamp(intrasentence) ==
    [task |-> Task(intrasentence), layer |-> layer_num, head |-> head_num]

\* an uncaught exception ends the process
Raise(e) ==
    /\ pc' = "crashed"
    /\ error' = e

(***************************************************************************)
(* __main__                                                                *)
(***************************************************************************)
\* the first pair of the sweep's two nested loops
FirstCell ==
    <<0, 0>>

\* (a variant of NextCell whose inner loop steps by two)
NextCellSkipping(l, h) ==
    IF h + 2 < GridHeads THEN <<l, h + 2>>
    ELSE IF l + 1 < GridLayers THEN <<l + 1, 0>>
    ELSE << >>

\* the pair that follows (l, h) in the nested loops; the empty tuple after the last
NextCell(l, h) ==
    IF h + 1 < GridHeads THEN <<l, h + 1>>
    ELSE IF l + 1 < GridLayers THEN <<l + 1, 0>>
    ELSE << >>

\* args = parse_args(); then either branch up to its (first) BiasEvaluator(...)
Main ==
    /\ pc = "main"
    /\ layer_num' = (IF args.do_pruning THEN FirstCell[1] ELSE None)
    /\ head_num' = (IF args.do_pruning THEN FirstCell[2] ELSE None)
    /\ model' = None
    /\ pc' = "evaluate"
    /\ UNCHANGED << args, shape, device_count, error, bias, files, inter_dataset, pending,
                    predictions, intra_dataset, batch_num, word_probabilities, log, calls >>

\* evaluate, up to the first scorer it calls
Evaluate ==
    /\ pc = "evaluate"
    /\ bias' = EmptyDict
    /\ log' = Append(log, [kind |-> "evaluate", task |-> None,
                           layer |-> layer_num, head |-> head_num])
    /\ pc' = (IF ~args.skip_intersentence THEN "inter_build"
              ELSE IF ~args.skip_intrasentence THEN "intra_build"
              ELSE "write")
    /\ UNCHANGED << args, shape, device_count, error, layer_num, head_num, model, files,
                    inter_dataset, pending, predictions, intra_dataset, batch_num,
                    word_probabilities, calls >>

\* json.dump(results, f) into the file the branch names; cell is a ghost
\* naming the iteration that wrote the file
WriteResults ==
    /\ pc = "write"
    /\ files' = DictSet(files,
                        IF args.do_pruning THEN SweepOutputFile(args, layer_num, head_num)
                        ELSE PlainOutputFile(args),
                        [content |-> bias, cell |-> <<layer_num, head_num>>])
    /\ pc' = (IF args.do_pruning THEN "next_cell" ELSE "done")
    /\ UNCHANGED << args, shape, device_count, error, layer_num, head_num, model, bias,
                    inter_dataset, pending, predictions, intra_dataset, batch_num,
                    word_probabilities, log, calls >>

\* the loops' step to the next (layer_num, head_num) and its BiasEvaluator(...)
SweepStep ==
    /\ pc = "next_cell"
    /\ LET c == NextCell(layer_num, head_num)
       IN  IF c = << >>
           THEN /\ pc' = "done"
                /\ UNCHANGED << layer_num, head_num, model >>
           ELSE /\ layer_num' = c[1]
                /\ head_num' = c[2]
                /\ model' = None
                /\ pc' = "evaluate"
    /\ UNCHANGED << args, shape, device_count, error, bias, files, inter_dataset, pending,
                    predictions, intra_dataset, batch_num, word_probabilities, log, calls >>

(***************************************************************************)
(* BiasEvaluator.evaluate_intersentence                                    *)
(***************************************************************************)
\* the model is constructed, wrapped, given the checkpoint and put in eval mode
InterBuild ==
    /\ pc = "inter_build"
    /\ LET m == DataParallel(FromPretrained(shape, Stamp(FALSE)))
       IN  model' = (IF args.intersentence_load_path # None THEN LoadStateDict(m) ELSE m)
    /\ pc' = "inter_prune"
    /\ UNCHANGED << args, shape, device_count, error, layer_num, head_num, bias, files,
                    inter_dataset, pending, predictions, intra_dataset, batch_num,
                    word_probabilities, log, calls >>

\* if(self.do_pruning): self.zero_out_attention_weights(..., intrasentence=False)
InterPrune ==
    /\ pc = "inter_prune"
    /\ IF ~args.do_pruning
       THEN /\ pc' = "inter_assert"
            /\ UNCHANGED << model, log, error >>
       ELSE IF ZeroOutError(model, layer_num, head_num, FALSE) # None
       THEN /\ Raise(ZeroOutError(model, layer_num, head_num, FALSE))
            /\ UNCHANGED << model, log >>
       ELSE /\ model' = ZeroOut(model, layer_num, head_num)
            /\ log' = Append(log, Event("ablate", FALSE))
            /\ pc' = "inter_assert"
            /\ UNCHANGED error
    /\ UNCHANGED << args, shape, device_count, layer_num, head_num, bias, files,
                    inter_dataset, pending, predictions, intra_dataset, batch_num,
                    word_probabilities, calls >>

\* a variant of BatchSizeAssertion: the assertion removed
BatchSizeAssertionOff(a) ==
    TRUE

\* assert args.batch_size == 1
BatchSizeAssertion(a) ==
    a.batch_size = 1

\* the dataset and the loader are made and the assertion is evaluated
InterAssert ==
    /\ pc = "inter_assert"
    /\ IF BatchSizeAssertion(args)
       THEN /\ pending' = 1..Len(inter_dataset)
            /\ predictions' = << >>
            /\ pc' = "inter_score"
            /\ UNCHANGED error
       ELSE /\ Raise("AssertionError")
            /\ UNCHANGED << pending, predictions >>
    /\ UNCHANGED << args, shape, device_count, layer_num, head_num, model, bias, files,
                    inter_dataset, intra_dataset, batch_num, word_probabilities, log, calls >>

\* one example, in the order the shuffling loader yields them: a forward pass
\* and its entry of predictions, by process_job under no_cuda and by the loop
\* body otherwise
InterScore ==
    /\ pc = "inter_score"
    /\ \E i \in pending :
          /\ pending' = pending \ {i}
          /\ predictions' = Append(predictions,
                 IF args.no_cuda
                 THEN process_job(inter_dataset[i], args.pretrained_class)
                 ELSE SequentialPrediction(inter_dataset[i], args.pretrained_class))
    /\ log' = Append(log, Event("forward", FALSE))
    /\ UNCHANGED << args, shape, device_count, pc, error, layer_num, head_num, model, bias,
                    files, inter_dataset, intra_dataset, batch_num, word_probabilities, calls >>

\* return predictions, and evaluate's bias['intersentence'] = ...
InterReturn ==
    /\ pc = "inter_score"
    /\ pending = {}
    /\ bias' = DictSet(bias, "intersentence", predictions)
    /\ pc' = (IF ~args.skip_intrasentence THEN "intra_build" ELSE "write")
    /\ UNCHANGED << args, shape, device_count, error, layer_num, head_num, model, files,
                    inter_dataset, pending, predictions, intra_dataset, batch_num,
                    word_probabilities, log, calls >>

(***************************************************************************)
(* BiasEvaluator.evaluate_intrasentence                                    *)
(***************************************************************************)
\* the model is constructed and put in eval mode; with more than one device
\* the local name model is read before any assignment to it
IntraBuild ==
    /\ pc = "intra_build"
    /\ IF device_count > 1
       THEN /\ Raise("UnboundLocalError")
            /\ model' = FromPretrained(shape, Stamp(TRUE))
       ELSE /\ model' = FromPretrained(shape, Stamp(TRUE))
            /\ pc' = "intra_prune"
            /\ UNCHANGED error
    /\ UNCHANGED << args, shape, device_count, layer_num, head_num, bias, files,
                    inter_dataset, pending, predictions, intra_dataset, batch_num,
                    word_probabilities, log, calls >>

\* if(self.do_pruning): self.zero_out_attention_weights(layer_num, head_num)
IntraPrune ==
    /\ pc = "intra_prune"
    /\ IF ~args.do_pruning
       THEN /\ pc' = "intra_load"
            /\ UNCHANGED << model, log, error >>
       ELSE IF ZeroOutError(model, layer_num, head_num, TRUE) # None
       THEN /\ Raise(ZeroOutError(model, layer_num, head_num, TRUE))
            /\ UNCHANGED << model, log >>
       ELSE /\ model' = ZeroOut(model, layer_num, head_num)
            /\ log' = Append(log, Event("ablate", TRUE))
            /\ pc' = "intra_load"
            /\ UNCHANGED error
    /\ UNCHANGED << args, shape, device_count, layer_num, head_num, bias, files,
                    inter_dataset, pending, predictions, intra_dataset, batch_num,
                    word_probabilities, calls >>

\* if self.INTRASENTENCE_LOAD_PATH: load_state_dict; then the loader and the
\* empty word_probabilities
IntraLoad ==
    /\ pc = "intra_load"
    /\ model' = (IF args.intrasentence_load_path # None THEN LoadStateDict(model) ELSE model)
    /\ batch_num' = 0
    /\ word_probabilities' = << >>
    /\ pc' = "intra_score"
    /\ UNCHANGED << args, shape, device_count, error, layer_num, head_num, bias, files,
                    inter_dataset, pending, predictions, intra_dataset, log, calls >>

\* one iteration of the loop over the loader: a forward pass on the batch and
\* the appends to word_probabilities
IntraScoreBatch ==
    /\ pc = "intra_score"
    /\ batch_num * args.batch_size < Len(intra_dataset)
    /\ LET batch == BatchOf(intra_dataset, args.batch_size, batch_num)
           first == batch_num * args.batch_size + 1
       IN  word_probabilities' =
               Accumulate(word_probabilities, batch, Diag(batch, first), 1)
    /\ batch_num' = batch_num + 1
    /\ log' = Append(log, Event("forward", TRUE))
    /\ UNCHANGED << args, shape, device_count, pc, error, layer_num, head_num, model, bias,
                    files, inter_dataset, pending, predictions, intra_dataset, calls >>

\* the reconciliation, the return, and evaluate's bias['intrasentence'] = ...
IntraReconcile ==
    /\ pc = "intra_score"
    /\ batch_num * args.batch_size >= Len(intra_dataset)
    /\ bias' = DictSet(bias, "intrasentence", Reconcile(word_probabilities))
    /\ pc' = "write"
    /\ UNCHANGED << args, shape, device_count, error, layer_num, head_num, model, files,
                    inter_dataset, pending, predictions, intra_dataset, batch_num,
                    word_probabilities, log, calls >>

Next ==
    \/ Main
    \/ Evaluate
    \/ InterBuild
    \/ InterPrune
    \/ InterAssert
    \/ InterScore
    \/ InterReturn
    \/ IntraBuild
    \/ IntraPrune
    \/ IntraLoad
    \/ IntraScoreBatch
    \/ IntraReconcile
    \/ WriteResults
    \/ SweepStep

Spec == Init /\ [][Next]_vars

(***************************************************************************)
(* Direct calls of the ablator: an evaluator whose model is constructed    *)
(* (bare, as evaluate_intrasentence leaves it, or wrapped, as              *)
(* evaluate_intersentence does) and up to MaxCalls calls of                *)
(* zero_out_attention_weights with indices in and out of range.            *)
(***************************************************************************)
InitAblate ==
    /\ args = [DefaultArgs EXCEPT !.do_pruning = TRUE]
    /\ shape \in Shapes
    /\ device_count = 1
    /\ pc = "ablator"
    /\ error = None
    /\ layer_num = 0
    /\ head_num = 0
    /\ \E w \in BOOLEAN :
          model = (IF w THEN DataParallel(FromPretrained(shape, Stamp(FALSE)))
                   ELSE FromPretrained(shape, Stamp(TRUE)))
    /\ bias = EmptyDict
    /\ files = EmptyDict
    /\ inter_dataset = MainInterDataset
    /\ pending = {}
    /\ predictions = << >>
    /\ intra_dataset = MainIntraDataset
    /\ batch_num = 0
    /\ word_probabilities = << >>
    /\ log = << >>
    /\ calls = 0

\* self.zero_out_attention_weights(l, h, intrasentence); an exception is
\* recorded in error and leaves the model as it was
AblatorCall ==
    /\ pc = "ablator"
    /\ calls < MaxCalls
    /\ \E l \in (-(shape.layers + 1))..shape.layers,
          h \in (-(shape.heads + 1))..shape.heads,
          intrasentence \in BOOLEAN :
          /\ layer_num' = l
          /\ head_num' = h
          /\ error' = ZeroOutError(model, l, h, intrasentence)
          /\ model' = (IF ZeroOutError(model, l, h, intrasentence) = None
                       THEN ZeroOut(model, l, h) ELSE model)
    /\ calls' = calls + 1
    /\ UNCHANGED << args, shape, device_count, pc, bias, files, inter_dataset, pending,
                    predictions, intra_dataset, batch_num, word_probabilities, log >>

NextAblate ==
    AblatorCall

SpecAblate == InitAblate /\ [][NextAblate]_vars

(***************************************************************************)
(* The intrasentence loop on its own: any dataset of up to MaxItems items  *)
(* of SeqLen tokens with any number of masks, and any batch size.          *)
(***************************************************************************)
Items ==
    [ sentence_id : {"s1", "s2"},
      next_token  : {"t1", "t2"},
      input_ids   : [1..SeqLen -> TokenIds] ]

Datasets(S) ==
    UNION { [1..n -> S] : n \in 1..MaxItems }

InitIntra ==
    /\ \E b \in 1..MaxItems : args = [DefaultArgs EXCEPT !.batch_size = b,
                                                        !.skip_intersentence = TRUE]
    /\ shape \in SweepShapes
    /\ device_count = 1
    /\ pc = "intra_score"
    /\ error = None
    /\ layer_num = None
    /\ head_num = None
    /\ model = FromPretrained(shape, Stamp(TRUE))
    /\ bias = EmptyDict
    /\ files = EmptyDict
    /\ inter_dataset = MainInterDataset
    /\ pending = {}
    /\ predictions = << >>
    /\ intra_dataset \in Datasets(Items)
    /\ batch_num = 0
    /\ word_probabilities = << >>
    /\ log = << >>
    /\ calls = 0

NextIntra ==
    \/ IntraScoreBatch
    \/ IntraReconcile

SpecIntra == InitIntra /\ [][NextIntra]_vars

(***************************************************************************)
(* The intersentence loop on its own: every pretrained class, both modes,  *)
(* any dataset of up to MaxItems examples.                                 *)
(***************************************************************************)
Examples ==
    [ id : {"e1", "e2"}, probs : { <<953, 47>>, <<119, 881>> } ]

\* datasets whose examples have different ids
InterDatasets ==
    { d \in Datasets(Examples) : \A m, n \in DOMAIN d : d[m].id = d[n].id => m = n }

InitInter ==
    /\ \E c \in pretrained_model_choices, n \in BOOLEAN :
          args = [DefaultArgs EXCEPT !.pretrained_class = c, !.no_cuda = n,
                                     !.skip_intrasentence = TRUE]
    /\ shape \in SweepShapes
    /\ device_count = 1
    /\ pc = "inter_score"
    /\ error = None
    /\ layer_num = None
    /\ head_num = None
    /\ model = DataParallel(FromPretrained(shape, Stamp(FALSE)))
    /\ bias = EmptyDict
    /\ files = EmptyDict
    /\ inter_dataset \in InterDatasets
    /\ pending = DOMAIN inter_dataset
    /\ predictions = << >>
    /\ intra_dataset = MainIntraDataset
    /\ batch_num = 0
    /\ word_probabilities = << >>
    /\ log = << >>
    /\ calls = 0

NextInter ==
    \/ InterScore
    \/ InterReturn

SpecInter == InitInter /\ [][NextInter]_vars

(***************************************************************************)
(* Vocabulary of the properties                                            *)
(***************************************************************************)
\* (l, h) names a layer and a head of m
ValidTarget(m, l, h) ==
    /\ 0 <= l /\ l < NumLayers(m)
    /\ 0 <= h /\ h < m.num_attention_heads

\* the features of head h: h*head_dim .. (h+1)*head_dim - 1
HeadFeatures(m, h) ==
    { i \in 0..(Hidden(m) - 1) :
        h * m.attention_head_size <= i /\ i < (h + 1) * m.attention_head_size }

\* head h's slice of the parameters of layer l: for each projection the rows
\* of the weight (output-feature axis) and the entries of the bias
HeadParams(m, l, h) ==
    [p \in Projections |->
        [ weight |-> [i \in HeadFeatures(m, h) |-> m.layer[l + 1][p].weight[i]],
          bias   |-> [i \in HeadFeatures(m, h) |-> m.layer[l + 1][p].bias[i]] ]]

\* head h's slice of layer l is all zeros
HeadZero(m, l, h) ==
    \A p \in Projections : \A i \in HeadFeatures(m, h) :
        /\ m.layer[l + 1][p].bias[i] = 0
        /\ \A j \in 0..(Hidden(m) - 1) : m.layer[l + 1][p].weight[i][j] = 0

\* the part of head h's slice that lies in the head's own columns, and its bias
HeadBlockZero(m, l, h) ==
    \A p \in Projections : \A i \in HeadFeatures(m, h) :
        /\ m.layer[l + 1][p].bias[i] = 0
        /\ \A j \in HeadFeatures(m, h) : m.layer[l + 1][p].weight[i][j] = 0

\* every zero parameter of m is a bias entry of head h of layer l or a weight
\* in one of that head's columns of layer l
ZerosOnlyAt(m, l, h) ==
    \A k \in DOMAIN m.layer : \A p \in Projections : \A i \in 0..(Hidden(m) - 1) :
        /\ m.layer[k][p].bias[i] = 0 => (k = l + 1 /\ i \in HeadFeatures(m, h))
        /\ \A j \in 0..(Hidden(m) - 1) :
              m.layer[k][p].weight[i][j] = 0 => (k = l + 1 /\ j \in HeadFeatures(m, h))

Scoring == pc \in {"inter_score", "intra_score"}

Grid == (0..(GridLayers - 1)) \X (0..(GridHeads - 1))

\* the number of entries of the log of one kind and task at cell c
Count(kind, task, c) ==
    Cardinality({ n \in DOMAIN log :
        log[n].kind = kind /\ log[n].task = task /\ <<log[n].layer, log[n].head>> = c })

\* the tasks that are not skipped
Tasks ==
    (IF args.skip_intersentence THEN {} ELSE {"intersentence"})
      \cup (IF args.skip_intrasentence THEN {} ELSE {"intrasentence"})

\* the (item, mask position) pairs of sentence id k
MaskSites(k) ==
    { x \in (DOMAIN intra_dataset) \X (1..SeqLen) :
        /\ intra_dataset[x[1]].sentence_id = k
        /\ x[2] \in MaskPositions(intra_dataset[x[1]].input_ids) }

\* the sum, over a set of such pairs, of the probability of the item's own
\* target token at the mask position
RECURSIVE SumSites(_)
SumSites(S) ==
    IF S = {} THEN 0
    ELSE LET x == CHOOSE y \in S : TRUE
         IN  Prob(intra_dataset[x[1]].input_ids, x[2], intra_dataset[x[1]].next_token)
               + SumSites(S \ {x})

\* the class index the policy prescribes for a pretrained class name
ClaimedClassIndex(c) ==
    IF Prefix(c, 4) = BERT \/ c = ROBERTA_BASE THEN 0 ELSE 1

(***************************************************************************)
(* C1.  After zero_out_attention_weights(l, h) with a valid (l, h), the    *)
(* head's slice [h*head_dim, (h+1)*head_dim) along the output-feature axis *)
(* of the query, key and value weights of layer l, and the same slice of   *)
(* the three biases, is all zeros.                                         *)
(***************************************************************************)
C1_HeadSliceZeroAfterAblation ==
    (pc = "ablator" /\ calls > 0 /\ error = None /\ ValidTarget(model, layer_num, head_num))
        => HeadZero(model, layer_num, head_num)

(***************************************************************************)
(* C2.  zero_out_attention_weights(l, h) with a valid (l, h) changes       *)
(* nothing outside head h: the slices of every other head of layer l and   *)
(* every parameter of every other layer are the same before and after.     *)
(***************************************************************************)
C2_OtherHeadsUnchanged ==
    [][ (calls' = calls + 1 /\ error' = None /\ ValidTarget(model, layer_num', head_num'))
          => \A l \in 0..(NumLayers(model) - 1) :
                \A h \in 0..(model.num_attention_heads - 1) :
                   (l # layer_num' \/ h # head_num')
                      => HeadParams(model', l, h) = HeadParams(model, l, h) ]_vars

(***************************************************************************)
(* C3.  With pruning enabled, when a scorer starts its forward passes the  *)
(* target head's query/key/value parameters are zero, in both scorers and  *)
(* with or without a checkpoint load path.  Stated on the part of the      *)
(* head's slice that lies in the head's own columns and on its bias        *)
(* entries, which the slice of C1 contains.                                *)
(***************************************************************************)
C3_TargetHeadZeroAtScoring ==
    (args.do_pruning /\ Scoring) => HeadBlockZero(model, layer_num, head_num)

(***************************************************************************)
(* C4.  A call of the ablator with a layer index outside [0, num_layers)   *)
(* or a head index outside [0, num_heads) fails with an out-of-range       *)
(* error.  (A call that fails earlier, on the attribute path chosen by the *)
(* intrasentence flag, is left out.)                                       *)
(***************************************************************************)
C4_InvalidIndexRaises ==
    (pc = "ablator" /\ calls > 0 /\ error # "AttributeError"
       /\ ~ValidTarget(model, layer_num, head_num))
        => error = "IndexError"

(***************************************************************************)
(* C5.  In evaluate_intrasentence, for any batch size and any number of    *)
(* masks per item, every value accumulated under an id was read at a mask  *)
(* position of an item of that id and for that item's own target token,    *)
(* one value per (item, mask position); once the loop has ended the score  *)
(* of the id is the mean of exactly those values.                          *)
(***************************************************************************)
C5_ReadingsBelongToTheirExample ==
    /\ \A n \in DOMAIN word_probabilities :
          LET e == word_probabilities[n]
          IN  /\ \A r \in DOMAIN e.v :
                    /\ <<e.v[r].item, e.v[r].q>> \in MaskSites(e.id)
                    /\ e.v[r].tok = intra_dataset[e.v[r].item].next_token
              /\ \A r1, r2 \in DOMAIN e.v :
                    (e.v[r1].item = e.v[r2].item /\ e.v[r1].q = e.v[r2].q) => r1 = r2
    /\ (pc = "write" /\ "intrasentence" \in DOMAIN bias) =>
          /\ \A n \in DOMAIN intra_dataset :
                LET k == intra_dataset[n].sentence_id
                IN  MaskSites(k) # {} =>
                       \E s \in DOMAIN bias["intrasentence"] :
                          /\ bias["intrasentence"][s].id = k
                          /\ bias["intrasentence"][s].score =
                                [num |-> SumSites(MaskSites(k)),
                                 den |-> Cardinality(MaskSites(k))]
          /\ \A s \in DOMAIN bias["intrasentence"] :
                MaskSites(bias["intrasentence"][s].id) # {}

(***************************************************************************)
(* C6.  For every pretrained class and in both modes (the sequential loop  *)
(* and process_job under no_cuda), the intersentence score of an example   *)
(* is its class-0 probability if the name begins with "bert" or equals     *)
(* "roberta-base", and its class-1 probability otherwise.                  *)
(***************************************************************************)
C6_ScoreClassByName ==
    (pc = "inter_score") =>
        \A n \in DOMAIN predictions :
            \E i \in DOMAIN inter_dataset :
                /\ inter_dataset[i].id =
                      (IF args.no_cuda THEN predictions[n][1] ELSE predictions[n].id)
                /\ (IF args.no_cuda THEN predictions[n][2] ELSE predictions[n].score)
                      = inter_dataset[i].probs[ClaimedClassIndex(args.pretrained_class) + 1]

(***************************************************************************)
(* C7.  A pruning sweep that completes leaves one output file per cell of  *)
(* the grid, GridLayers * GridHeads distinct files in all (144 for the     *)
(* 12 x 12 grid), also when an output file name is given; no cell's file   *)
(* is overwritten by a later cell.                                         *)
(***************************************************************************)
C7_OneFilePerCell ==
    (args.do_pruning /\ pc = "done") =>
        /\ Cardinality(DOMAIN files) = GridLayers * GridHeads
        /\ \A c \in Grid : \E f \in DOMAIN files : files[f].cell = c

C9_BatchSizeFailsFast ==
    (~args.skip_intersentence /\ args.batch_size # 1) =>
        /\ pc \in {"main", "evaluate", "inter_build", "inter_prune", "inter_assert", "crashed"}
        /\ pc = "crashed" => error = "AssertionError"
        /\ \A n \in DOMAIN log : log[n].kind # "forward"
        /\ predictions = << >>
        /\ "intersentence" \notin DOMAIN bias
        /\ DOMAIN files = {}

\* C9: a sweep with batch size 2 has ended in the assertion
C9_Witness ==
    /\ ~args.skip_intersentence /\ args.batch_size # 1
    /\ args.do_pruning
    /\ pc = "crashed" /\ error = "AssertionError"

(***************************************************************************)
(* C10.  Ablations never accumulate: whenever a scorer of sweep cell       *)
(* (l, h) runs its forward passes, the model scored was constructed in     *)
(* this cell by this scorer, every zeroed parameter of it was zeroed by    *)
(* this cell's call of the ablator, and no head other than (l, h) has an   *)
(* all-zero slice: nothing is left of an earlier cell's ablation or of the *)
(* other task's.                                                           *)
(***************************************************************************)
C10_AblationsDoNotAccumulate ==
    (args.do_pruning /\ Scoring) =>
        /\ model.born = [task |-> Task(pc = "intra_score"),
                         layer |-> layer_num, head |-> head_num]
        /\ model.wrapped = (pc = "inter_score")
        /\ ZerosOnlyAt(model, layer_num, head_num)
        /\ \A l \in 0..(NumLayers(model) - 1) :
              \A h \in 0..(model.num_attention_heads - 1) :
                 HeadZero(model, l, h) => (l = layer_num /\ h = head_num)

\* C10: the intrasentence scorer of the last cell, after the intersentence
\* scorer and every earlier cell, scores a model whose target head is zeroed
C10_Witness ==
    /\ args.do_pruning /\ pc = "intra_score"
    /\ ~args.skip_intersentence
    /\ layer_num = GridLayers - 1 /\ head_num = GridHeads - 1
    /\ HeadBlockZero(model, layer_num, head_num)

====
